---- MODULE Spec2Model ----
(***************************************************************************)
(* Wallet consolidation endpoints of the Midnight fetcher bot:             *)
(*   POST /api/wallet/consolidate          (src/unnamed/part_002)          *)
(*   POST /api/wallet/consolidation-proofs (src/app/api/wallet/...)        *)
(*   GET  addresses listing                (src/unnamed/part_001)          *)
(*                                                                         *)
(* A JavaScript string is a sequence of tokens: addresses and signatures   *)
(* are sequences of one-character tokens, string literals of the source    *)
(* are one token each, and template strings are concatenations (\o).       *)
(***************************************************************************)
EXTENDS Integers, Sequences, FiniteSets, TLC

VARIABLES
    ledger,                   \* the receipts ledger (receiptsLogger), append-only
    signer,                   \* the outcomes signMessage can have in this run
    remote,                   \* the outcomes a fetch can have in this run
    now,                      \* the wall clock (new Date())
    lst,                      \* addresses listing: the handler's receipts, Map and response
    pr,                       \* consolidation-proofs: the handler's request, locals and response
    body,                     \* consolidate: the parsed request body
    pc,                       \* consolidate: position of the handler
    receipts,                 \* consolidate: the receipts read from the ledger
    userSolutionsPerAddress,  \* consolidate: the Map built from the receipts
    donors,                   \* consolidate: the resolved donor list
    di,                       \* consolidate: position of the for-loop in donors
    entry,                    \* consolidate: the entry being built for donors[di]
    url,                      \* consolidate: the url handed to postDonateTo
    results,                  \* consolidate: the results array
    attempt,                  \* postDonateTo: attempt
    wait,                     \* postDonateTo: wait
    lastOutcome,              \* postDonateTo: what the latest fetch produced
    statuses,                 \* observed: statuses of the fetches of the current call
    sleeps,                   \* observed: seconds slept in the current call
    signLog,                  \* observed: every signMessage(index, message) call
    fetchLog,                 \* observed: the url of every fetch of the request
    calls,                    \* observed: the calls of loadWallet and readReceipts
    response                  \* consolidate: the response returned

cvars == <<body, pc, receipts, userSolutionsPerAddress, donors, di, entry, url, results,
           attempt, wait, lastOutcome, statuses, sleeps, signLog, fetchLog, calls, response>>

env == <<signer, remote>>

vars == <<ledger, now, env, cvars, lst, pr>>

----------------------------------------------------------------------------
(* Bounds of the model *)

\* largest integer a request gives as maxRetries
MaxRetriesIn == 3
\* largest integer a request gives as initialBackoffSeconds
MaxBackoffIn == 2
\* longest receipts ledger
MaxReceipts == 2
\* longest addressIndexes array of a request
MaxIndexes == 2

----------------------------------------------------------------------------
(* Strings *)

Fill(c, n) == [i \in 1..n |-> c]

StartsWith(s, p) == Len(s) >= Len(p) /\ SubSeq(s, 1, Len(p)) = p

ADDR1 == <<"a", "d", "d", "r", "1">>

TNIGHT1 == <<"t", "n", "i", "g", "h", "t", "1">>

\* addr.length > 20
MinAddrLen == 20

\* isValidAddr that accepts a length of 20
isValidAddr_AtLeast20(addr) ==
    (StartsWith(addr, ADDR1) \/ StartsWith(addr, TNIGHT1)) /\ Len(addr) >= MinAddrLen

isValidAddr(addr) ==
    (StartsWith(addr, ADDR1) \/ StartsWith(addr, TNIGHT1)) /\ Len(addr) > MinAddrLen

API_BASE == <<"https://scavenger.prod.gd.midnighttge.io">>

\* characters encodeURIComponent leaves alone (those the model's signatures use)
Unreserved == {"a", "b", "0", "1", "-", "_"}

\* encodeURIComponent of one character
EncodeChar(c) ==
    IF c \in Unreserved THEN <<c>>
    ELSE IF c = "+" THEN <<"%", "2", "B">>
    ELSE IF c = "/" THEN <<"%", "2", "F">>
    ELSE IF c = "=" THEN <<"%", "3", "D">>
    ELSE <<"%", "?", "?">>

\* encodeURIComponent that escapes nothing
encodeURIComponent_Identity(s) == s

RECURSIVE encodeURIComponent(_)
encodeURIComponent(s) ==
    IF s = <<>> THEN <<>> ELSE EncodeChar(Head(s)) \o encodeURIComponent(Tail(s))

----------------------------------------------------------------------------
(* The wallet (WalletManager) and the receipts ledger: collaborators *)

\* what loadWallet(password) returns for the right password
DerivedAddresses ==
    << [index |-> 0, bech32 |-> ADDR1 \o Fill("p", 16), publicKeyHex |-> "pk0"],
       [index |-> 1, bech32 |-> ADDR1 \o Fill("q", 16), publicKeyHex |-> "pk1"],
       [index |-> 2, bech32 |-> TNIGHT1 \o Fill("r", 14), publicKeyHex |-> "pk2"] >>

Bech32(i) == DerivedAddresses[i + 1].bech32

\* an address no derived address has
ForeignAddr == ADDR1 \o Fill("z", 16)

GoodPassword == "pw"

\* signatures signMessage may return
Signatures == { <<"a", "b">>, <<"a", "+", "/">> }

\* outcomes of signMessage: a signature, or an exception with or without a message
SignOutcomes ==
    { [ok |-> TRUE, signature |-> s, message |-> ""] : s \in Signatures }
        \cup { [ok |-> FALSE, signature |-> <<>>, message |-> m] : m \in {"", "key unavailable"} }

\* receipts the ledger may hold; <<>> is a receipt without an address
ReceiptAddresses == { Bech32(0), Bech32(1), Bech32(2), ForeignAddr, <<>> }

Receipts == [address : ReceiptAddresses, isDevFee : BOOLEAN]

----------------------------------------------------------------------------
(* JavaScript numbers of a request body: an integer v, the non-integer     *)
(* v + 0.5, or a value Number() turns into NaN / that is not a number      *)

Num(k) == [t |-> "int", v |-> k]

Half(k) == [t |-> "frac", v |-> k]

NotANumber == [t |-> "nan", v |-> 0]

\* Number.isInteger(n)
IsInteger(n) == n.t = "int"

\* Number.isFinite(n)
IsFinite(n) == n.t \in {"int", "frac"}

Max(a, b) == IF a >= b THEN a ELSE b

Min(S) == CHOOSE x \in S : \A y \in S : x <= y

RECURSIVE Pow2(_)
Pow2(n) == IF n <= 0 THEN 1 ELSE 2 * Pow2(n - 1)

----------------------------------------------------------------------------
(* Eligibility: user solutions per address *)

\* userSolutionsPerAddress.get(k) || 0
MapGet(m, k) == IF k \in DOMAIN m THEN m[k] ELSE 0

\* userSolutionsPerAddress.set(k, (userSolutionsPerAddress.get(k) || 0) + 1)
MapIncr(m, k) ==
    [x \in DOMAIN m \cup {k} |-> IF x = k THEN MapGet(m, k) + 1 ELSE m[x]]

\* new Map()
EmptyMap == [x \in {} |-> 0]

\* ConsolidateCountLoop without the test of isDevFee
RECURSIVE ConsolidateCountLoop_CountsDevFee(_, _)
ConsolidateCountLoop_CountsDevFee(rs, m) ==
    IF rs = <<>> THEN m
    ELSE ConsolidateCountLoop_CountsDevFee(Tail(rs),
            IF Head(rs).address # <<>>
            THEN MapIncr(m, Head(rs).address) ELSE m)

\* consolidate: for (const r of receipts) if (r && r.address && !r.isDevFee) ...
RECURSIVE ConsolidateCountLoop(_, _)
ConsolidateCountLoop(rs, m) ==
    IF rs = <<>> THEN m
    ELSE ConsolidateCountLoop(Tail(rs),
            IF Head(rs).address # <<>> /\ ~Head(rs).isDevFee
            THEN MapIncr(m, Head(rs).address) ELSE m)

ConsolidateUserSolutions(rs) == ConsolidateCountLoop(rs, EmptyMap)

----------------------------------------------------------------------------
(* consolidate: request parsing and donor resolution *)

DefaultMaxRetries == 3

DefaultBackoffSeconds == 20

\* body.dryRun === true
DryRunOf(b) == b.dryRun = "true"

\* MaxRetriesOf with a default of 5 retries
MaxRetriesOf_WrongDefault(b) ==
    IF IsInteger(b.maxRetries) THEN Max(0, b.maxRetries.v) ELSE 5

\* Number.isInteger(body.maxRetries) ? Math.max(0, body.maxRetries) : 3
MaxRetriesOf(b) ==
    IF IsInteger(b.maxRetries) THEN Max(0, b.maxRetries.v) ELSE DefaultMaxRetries

\* Number.isFinite(body.initialBackoffSeconds) ? Math.max(1, ...) : 20
InitialBackoffSecondsOf(b) ==
    IF IsFinite(b.initialBackoffSeconds) THEN Max(1, b.initialBackoffSeconds.v)
    ELSE DefaultBackoffSeconds

\* the filter of addressIndexes.map(Number).filter(...)
IsIndex(n) == IsInteger(n) /\ n.v >= 0

\* donorIndexes
DonorIndexesOf(b, addresses) ==
    IF Len(b.addressIndexes) > 0
    THEN LET kept == SelectSeq(b.addressIndexes, IsIndex)
         IN  [k \in 1..Len(kept) |-> kept[k].v]
    ELSE [k \in 1..Len(addresses) |-> addresses[k].index]

\* addresses.find((a) => a.index === i), as a list of zero or one address
Find(addresses, i) ==
    LET hits == {k \in 1..Len(addresses) : addresses[k].index = i}
    IN  IF hits = {} THEN <<>> ELSE <<addresses[Min(hits)]>>

\* DonorsOf without the filter on the recipient address
RECURSIVE DonorsOf_KeepRecipient(_, _, _, _)
DonorsOf_KeepRecipient(idx, addresses, recipient, counts) ==
    IF idx = <<>> THEN <<>>
    ELSE LET found == Find(addresses, Head(idx))
             keep  == /\ found # <<>>
                      /\ MapGet(counts, found[1].bech32) > 0
         IN  (IF keep THEN found ELSE <<>>)
                 \o DonorsOf_KeepRecipient(Tail(idx), addresses, recipient, counts)

\* donorIndexes.map(find).filter(!!a).filter(not recipient).filter(count > 0)
RECURSIVE DonorsOf(_, _, _, _)
DonorsOf(idx, addresses, recipient, counts) ==
    IF idx = <<>> THEN <<>>
    ELSE LET found == Find(addresses, Head(idx))
             keep  == /\ found # <<>>
                      /\ found[1].bech32 # recipient
                      /\ MapGet(counts, found[1].bech32) > 0
         IN  (IF keep THEN found ELSE <<>>)
                 \o DonorsOf(Tail(idx), addresses, recipient, counts)

\* `Assign accumulated Scavenger rights to: ${recipientAddress}`
MessageOf(recipient) == <<"Assign accumulated Scavenger rights to: ">> \o recipient

\* `${API_BASE}/donate_to/${recipientAddress}/${donor.bech32}/${encodedSig}`
UrlOf(recipient, donor, encodedSig) ==
    API_BASE \o <<"/donate_to/">> \o recipient \o <<"/">> \o donor \o <<"/">> \o encodedSig

\* `curl -L -X POST "${url}" -d "{}"`
CurlOf(u) == <<"curl -L -X POST \"">> \o u \o <<"\" -d \"{}\"">>

\* err?.message || fallback
ErrorMessage(m, fallback) == IF m = "" THEN fallback ELSE m

----------------------------------------------------------------------------
(* postDonateTo: the remote and one pass of the retry loop *)

\* HTTP statuses the remote may answer with
HttpStatuses == {200, 404, 408, 429, 500}

\* response texts: one that parses as JSON, one that does not
Texts == { [isJson |-> TRUE, v |-> "{\"ok\":1}"], [isJson |-> FALSE, v |-> "Too Many Requests"] }

NoText == [isJson |-> FALSE, v |-> ""]

\* what one fetch (with res.text()) produces: a response, or an exception
FetchOutcomes ==
    { [kind |-> "http", status |-> st, text |-> t, message |-> ""] :
          st \in HttpStatuses, t \in Texts }
        \cup { [kind |-> "throw", status |-> 0, text |-> NoText, message |-> m] :
                   m \in {"", "ECONNREFUSED"} }

\* try { data = JSON.parse(text); } catch { data = { raw: text }; }
ParseBody(text) ==
    IF text.isJson THEN [kind |-> "json", v |-> text.v] ELSE [kind |-> "raw", v |-> text.v]

\* res.ok
ResOk(status) == status >= 200 /\ status <= 299

\* Math.max(1, backoffSec)
InitialWait(backoffSec) == Max(1, backoffSec)

\* postDonateToStep that also retries a 5xx answer
postDonateToStep_Retry5xx(att, maxRetries, o) ==
    IF o.kind = "http"
    THEN IF ResOk(o.status)
         THEN [retry |-> FALSE, status |-> o.status, data |-> ParseBody(o.text)]
         ELSE IF (o.status = 429 \/ o.status = 408 \/ o.status >= 500) /\ att <= maxRetries
         THEN [retry |-> TRUE, status |-> o.status, data |-> ParseBody(o.text)]
         ELSE [retry |-> FALSE, status |-> o.status, data |-> ParseBody(o.text)]
    ELSE IF att <= maxRetries
         THEN [retry |-> TRUE, status |-> 0,
               data |-> [kind |-> "error", v |-> ErrorMessage(o.message, "Network error")]]
         ELSE [retry |-> FALSE, status |-> 0,
               data |-> [kind |-> "error", v |-> ErrorMessage(o.message, "Network error")]]

\* postDonateToStep that compares attempt < maxRetries + 2 (one retry too many)
postDonateToStep_OneMore(att, maxRetries, o) ==
    IF o.kind = "http"
    THEN IF ResOk(o.status)
         THEN [retry |-> FALSE, status |-> o.status, data |-> ParseBody(o.text)]
         ELSE IF (o.status = 429 \/ o.status = 408) /\ att <= maxRetries + 1
         THEN [retry |-> TRUE, status |-> o.status, data |-> ParseBody(o.text)]
         ELSE [retry |-> FALSE, status |-> o.status, data |-> ParseBody(o.text)]
    ELSE IF att <= maxRetries + 1
         THEN [retry |-> TRUE, status |-> 0,
               data |-> [kind |-> "error", v |-> ErrorMessage(o.message, "Network error")]]
         ELSE [retry |-> FALSE, status |-> 0,
               data |-> [kind |-> "error", v |-> ErrorMessage(o.message, "Network error")]]

\* postDonateToStep that reports an exhausted 429/408 as a generic error
postDonateToStep_ExhaustedAsError(att, maxRetries, o) ==
    IF o.kind = "http"
    THEN IF ResOk(o.status)
         THEN [retry |-> FALSE, status |-> o.status, data |-> ParseBody(o.text)]
         ELSE IF (o.status = 429 \/ o.status = 408) /\ att <= maxRetries
         THEN [retry |-> TRUE, status |-> o.status, data |-> ParseBody(o.text)]
         ELSE IF o.status = 429 \/ o.status = 408
         THEN [retry |-> FALSE, status |-> 0,
               data |-> [kind |-> "error", v |-> "Max retries exceeded"]]
         ELSE [retry |-> FALSE, status |-> o.status, data |-> ParseBody(o.text)]
    ELSE IF att <= maxRetries
         THEN [retry |-> TRUE, status |-> 0,
               data |-> [kind |-> "error", v |-> ErrorMessage(o.message, "Network error")]]
         ELSE [retry |-> FALSE, status |-> 0,
               data |-> [kind |-> "error", v |-> ErrorMessage(o.message, "Network error")]]

\* the body of the while loop after attempt++, for the outcome o of the fetch:
\* either sleep and continue, or return {status, data}
postDonateToStep(att, maxRetries, o) ==
    IF o.kind = "http"
    THEN IF ResOk(o.status)
         THEN [retry |-> FALSE, status |-> o.status, data |-> ParseBody(o.text)]
         ELSE IF (o.status = 429 \/ o.status = 408) /\ att <= maxRetries
         THEN [retry |-> TRUE, status |-> o.status, data |-> ParseBody(o.text)]
         ELSE [retry |-> FALSE, status |-> o.status, data |-> ParseBody(o.text)]
    ELSE IF att <= maxRetries
         THEN [retry |-> TRUE, status |-> 0,
               data |-> [kind |-> "error", v |-> ErrorMessage(o.message, "Network error")]]
         ELSE [retry |-> FALSE, status |-> 0,
               data |-> [kind |-> "error", v |-> ErrorMessage(o.message, "Network error")]]

\* NextWait that forgets to double
NextWait_Constant(w) == w

\* wait *= 2
NextWait(w) == w * 2

----------------------------------------------------------------------------
(* consolidate: the handler *)

NoEntry == [index |-> -1]

NoOutcome == [kind |-> "none", status |-> 0, text |-> NoText, message |-> ""]

NoResponse == [status |-> 0]

ErrorResponse(st, msg) == [success |-> FALSE, status |-> st, error |-> msg]

\* POST, from request.json() to the donor list: validation, loadWallet,
\* readReceipts, the counts and the donors
Consolidate ==
    /\ pc = "start"
    /\ UNCHANGED <<ledger, now, env, lst, pr, body, di, entry, url, results, attempt, wait,
                   lastOutcome, statuses, sleeps, signLog, fetchLog>>
    /\ IF body.password = ""
       THEN /\ response' = ErrorResponse(400, "Missing password")
            /\ pc' = "done"
            /\ UNCHANGED <<receipts, userSolutionsPerAddress, donors, calls>>
       ELSE IF ~isValidAddr(body.recipientAddress)
       THEN /\ response' = ErrorResponse(400, "Invalid recipientAddress")
            /\ pc' = "done"
            /\ UNCHANGED <<receipts, userSolutionsPerAddress, donors, calls>>
       ELSE IF body.password # GoodPassword
       THEN \* loadWallet throws: the outer catch
            /\ response' = ErrorResponse(500, "Failed to decrypt wallet")
            /\ pc' = "done"
            /\ calls' = Append(calls, "loadWallet")
            /\ UNCHANGED <<receipts, userSolutionsPerAddress, donors>>
       ELSE LET rs == ledger
                counts == ConsolidateUserSolutions(rs)
                ds == DonorsOf(DonorIndexesOf(body, DerivedAddresses), DerivedAddresses,
                               body.recipientAddress, counts)
            IN  /\ calls' = calls \o <<"loadWallet", "readReceipts">>
                /\ receipts' = rs
                /\ userSolutionsPerAddress' = counts
                /\ donors' = ds
                /\ IF ds = <<>>
                   THEN /\ response' = ErrorResponse(400, "No donor addresses with user solutions")
                        /\ pc' = "done"
                   ELSE /\ response' = response
                        /\ pc' = "sign"

\* SignedEntry that counts the donor's receipts again, from the ledger as it
\* is when the entry is built
SignedEntry_Reread(donor, counts, signature, curl) ==
    [index |-> donor.index, donor |-> donor.bech32,
     totalUserSolutions |-> MapGet(ConsolidateUserSolutions(ledger), donor.bech32),
     signed |-> TRUE, signature |-> signature, curl |-> curl]

\* the entry of a signed donor
SignedEntry(donor, counts, signature, curl) ==
    [index |-> donor.index, donor |-> donor.bech32,
     totalUserSolutions |-> MapGet(counts, donor.bech32),
     signed |-> TRUE, signature |-> signature, curl |-> curl]

\* the entry pushed by the catch of the donor loop
FailedEntry(donor, counts, message) ==
    [index |-> donor.index, donor |-> donor.bech32,
     totalUserSolutions |-> MapGet(counts, donor.bech32),
     signed |-> FALSE, status |-> 0,
     response |-> [kind |-> "error", v |-> ErrorMessage(message, "Signing failed")]]

\* SubmittedEntry that reports signed by the outcome of the submission
SubmittedEntry_SignedIfOk(e, res) ==
    [index |-> e.index, donor |-> e.donor, totalUserSolutions |-> e.totalUserSolutions,
     signed |-> ResOk(res.status), signature |-> e.signature, curl |-> e.curl,
     status |-> res.status, response |-> res.data]

\* entry.status = res.status; entry.response = res.data
SubmittedEntry(e, res) ==
    [index |-> e.index, donor |-> e.donor, totalUserSolutions |-> e.totalUserSolutions,
     signed |-> e.signed, signature |-> e.signature, curl |-> e.curl,
     status |-> res.status, response |-> res.data]

\* SignDonor with the try/catch around the whole loop: a signing failure
\* pushes its entry and ends the loop
SignDonor_AbortsOnFailure ==
    /\ pc = "sign"
    /\ di <= Len(donors)
    /\ LET donor == donors[di]
           message == MessageOf(body.recipientAddress)
       IN  \E o \in signer :
             /\ signLog' = Append(signLog, [index |-> donor.index, message |-> message,
                                            ok |-> o.ok, signature |-> o.signature,
                                            error |-> o.message])
             /\ IF o.ok
                THEN LET encodedSig == encodeURIComponent(o.signature)
                         u == UrlOf(body.recipientAddress, donor.bech32, encodedSig)
                         e == SignedEntry(donor, userSolutionsPerAddress, o.signature, CurlOf(u))
                     IN  IF DryRunOf(body)
                         THEN /\ results' = Append(results, e)
                              /\ di' = di + 1
                              /\ UNCHANGED <<pc, entry, url, attempt, wait, statuses, sleeps,
                                             lastOutcome>>
                         ELSE /\ pc' = "fetch"
                              /\ entry' = e
                              /\ url' = u
                              /\ attempt' = 0
                              /\ wait' = InitialWait(InitialBackoffSecondsOf(body))
                              /\ statuses' = <<>>
                              /\ sleeps' = <<>>
                              /\ lastOutcome' = NoOutcome
                              /\ UNCHANGED <<results, di>>
                ELSE /\ results' = Append(results, FailedEntry(donor, userSolutionsPerAddress, o.message))
                     /\ di' = Len(donors) + 1
                     /\ UNCHANGED <<pc, entry, url, attempt, wait, statuses, sleeps, lastOutcome>>
    /\ UNCHANGED <<ledger, now, env, lst, pr, body, receipts, userSolutionsPerAddress, donors, fetchLog, calls, response>>

\* one pass of for (const donor of donors) up to the call of postDonateTo:
\* signMessage, the url, the curl string, the entry, and for a dry run or a
\* signing failure the push
SignDonor ==
    /\ pc = "sign"
    /\ di <= Len(donors)
    /\ LET donor == donors[di]
           message == MessageOf(body.recipientAddress)
       IN  \E o \in signer :
             /\ signLog' = Append(signLog, [index |-> donor.index, message |-> message,
                                            ok |-> o.ok, signature |-> o.signature,
                                            error |-> o.message])
             /\ IF o.ok
                THEN LET encodedSig == encodeURIComponent(o.signature)
                         u == UrlOf(body.recipientAddress, donor.bech32, encodedSig)
                         e == SignedEntry(donor, userSolutionsPerAddress, o.signature, CurlOf(u))
                     IN  IF DryRunOf(body)
                         THEN /\ results' = Append(results, e)
                              /\ di' = di + 1
                              /\ UNCHANGED <<pc, entry, url, attempt, wait, statuses, sleeps,
                                             lastOutcome>>
                         ELSE /\ pc' = "fetch"
                              /\ entry' = e
                              /\ url' = u
                              /\ attempt' = 0
                              /\ wait' = InitialWait(InitialBackoffSecondsOf(body))
                              /\ statuses' = <<>>
                              /\ sleeps' = <<>>
                              /\ lastOutcome' = NoOutcome
                              /\ UNCHANGED <<results, di>>
                ELSE /\ results' = Append(results, FailedEntry(donor, userSolutionsPerAddress, o.message))
                     /\ di' = di + 1
                     /\ UNCHANGED <<pc, entry, url, attempt, wait, statuses, sleeps, lastOutcome>>
    /\ UNCHANGED <<ledger, now, env, lst, pr, body, receipts, userSolutionsPerAddress, donors, fetchLog, calls, response>>

\* Fetch that puts the entry at the front of results (unshift for push)
Fetch_PrependsResult ==
    /\ pc = "fetch"
    /\ attempt' = attempt + 1
    /\ fetchLog' = Append(fetchLog, [url |-> url, donor |-> entry.donor, slot |-> di])
    /\ \E o \in remote :
         LET step == postDonateToStep(attempt + 1, MaxRetriesOf(body), o)
         IN  /\ lastOutcome' = o
             /\ statuses' = Append(statuses, o.status)
             /\ IF step.retry
                THEN /\ pc' = "sleep"
                     /\ UNCHANGED <<results, di, entry, url>>
                ELSE /\ results' = <<SubmittedEntry(entry, step)>> \o results
                     /\ di' = di + 1
                     /\ pc' = "sign"
                     /\ entry' = NoEntry
                     /\ url' = <<>>
    /\ UNCHANGED <<ledger, now, env, lst, pr, body, receipts, userSolutionsPerAddress, donors, wait, sleeps, signLog, calls, response>>

\* postDonateTo: attempt++, the fetch, and what the loop does with its outcome;
\* on return the caller completes the entry and pushes it
Fetch ==
    /\ pc = "fetch"
    /\ attempt' = attempt + 1
    /\ fetchLog' = Append(fetchLog, [url |-> url, donor |-> entry.donor, slot |-> di])
    /\ \E o \in remote :
         LET step == postDonateToStep(attempt + 1, MaxRetriesOf(body), o)
         IN  /\ lastOutcome' = o
             /\ statuses' = Append(statuses, o.status)
             /\ IF step.retry
                THEN /\ pc' = "sleep"
                     /\ UNCHANGED <<results, di, entry, url>>
                ELSE /\ results' = Append(results, SubmittedEntry(entry, step))
                     /\ di' = di + 1
                     /\ pc' = "sign"
                     /\ entry' = NoEntry
                     /\ url' = <<>>
    /\ UNCHANGED <<ledger, now, env, lst, pr, body, receipts, userSolutionsPerAddress, donors, wait, sleeps, signLog, calls, response>>

\* postDonateTo: await sleep(wait * 1000); wait *= 2; continue
Sleep ==
    /\ pc = "sleep"
    /\ sleeps' = Append(sleeps, wait)
    /\ wait' = NextWait(wait)
    /\ pc' = "fetch"
    /\ UNCHANGED <<ledger, now, env, lst, pr, body, receipts, userSolutionsPerAddress, donors, di, entry, url, results,
                   attempt, lastOutcome, statuses, signLog, fetchLog, calls, response>>

\* Respond with an outer success that depends on the donors' outcomes
Respond_FailsWithDonors ==
    /\ pc = "sign"
    /\ di > Len(donors)
    /\ response' = [success |-> \A k \in 1..Len(results) :
                                    results[k].signed /\ ("status" \in DOMAIN results[k] =>
                                                             ResOk(results[k].status)),
                    status |-> 200, dryRun |-> DryRunOf(body),
                    message |-> MessageOf(body.recipientAddress),
                    recipientAddress |-> body.recipientAddress,
                    donors |-> Len(results), results |-> results]
    /\ pc' = "done"
    /\ UNCHANGED <<ledger, now, env, lst, pr, body, receipts, userSolutionsPerAddress, donors, di, entry, url, results,
                   attempt, wait, lastOutcome, statuses, sleeps, signLog, fetchLog, calls>>

\* the response after the donor loop
Respond ==
    /\ pc = "sign"
    /\ di > Len(donors)
    /\ response' = [success |-> TRUE, status |-> 200, dryRun |-> DryRunOf(body),
                    message |-> MessageOf(body.recipientAddress),
                    recipientAddress |-> body.recipientAddress,
                    donors |-> Len(results), results |-> results]
    /\ pc' = "done"
    /\ UNCHANGED <<ledger, now, env, lst, pr, body, receipts, userSolutionsPerAddress, donors, di, entry, url, results,
                   attempt, wait, lastOutcome, statuses, sleeps, signLog, fetchLog, calls>>

ConsolidateNext == Consolidate \/ SignDonor \/ Fetch \/ Sleep \/ Respond

----------------------------------------------------------------------------
(* addresses listing: GET *)

\* addresses listing: for (const r of receipts) if (r && r.address && !r.isDevFee) ...
RECURSIVE ListingCountLoop(_, _)
ListingCountLoop(rs, m) ==
    IF rs = <<>> THEN m
    ELSE ListingCountLoop(Tail(rs),
            IF Head(rs).address # <<>> /\ ~Head(rs).isDevFee
            THEN MapIncr(m, Head(rs).address) ELSE m)

ListingUserSolutions(rs) == ListingCountLoop(rs, EmptyMap)

\* donors.reduce((max, cur) => cur.totalUserSolutions > max.totalUserSolutions ? cur : max, donors[0])
RECURSIVE ReduceMax(_, _)
ReduceMax(ds, max) ==
    IF ds = <<>> THEN max
    ELSE ReduceMax(Tail(ds),
            IF Head(ds).totalUserSolutions > max.totalUserSolutions THEN Head(ds) ELSE max)

HasSolutions(a) == a.totalUserSolutions > 0

NoListing ==
    [fileExists |-> TRUE, pc |-> "idle", receipts |-> <<>>,
     userSolutionsPerAddress |-> EmptyMap, response |-> NoResponse]

\* GET: the whole handler
AddressesGET ==
    /\ lst.pc = "start"
    /\ IF ~lst.fileExists
       THEN lst' = [lst EXCEPT !.pc = "done",
                               !.response = ErrorResponse(404, "No wallet addresses found")]
       ELSE LET addrs == DerivedAddresses
                rs == ledger
                counts == ListingUserSolutions(rs)
                addresses == [k \in 1..Len(addrs) |->
                                 [index |-> addrs[k].index, address |-> addrs[k].bech32,
                                  publicKeyHex |-> addrs[k].publicKeyHex,
                                  totalUserSolutions |-> MapGet(counts, addrs[k].bech32)]]
                ds == SelectSeq(addresses, HasSolutions)
            IN  lst' = [lst EXCEPT
                          !.pc = "done",
                          !.receipts = rs,
                          !.userSolutionsPerAddress = counts,
                          !.response = [success |-> TRUE, status |-> 200,
                                        addresses |-> addresses, donors |-> ds,
                                        suggestedRecipient |->
                                            IF Len(ds) > 0 THEN <<ReduceMax(ds, ds[1])>>
                                            ELSE <<>>]]
    /\ UNCHANGED <<ledger, now, env, cvars, pr>>

----------------------------------------------------------------------------
(* consolidation-proofs: POST *)

\* String.prototype.trim, for strings whose white space is the blank
RECURSIVE TrimStart(_)
TrimStart(s) == IF s # <<>> /\ Head(s) = " " THEN TrimStart(Tail(s)) ELSE s

RECURSIVE TrimEnd(_)
TrimEnd(s) ==
    IF s # <<>> /\ s[Len(s)] = " " THEN TrimEnd(SubSeq(s, 1, Len(s) - 1)) ELSE s

Trim(s) == TrimEnd(TrimStart(s))

Digits == <<"0", "1", "2", "3", "4", "5", "6", "7", "8", "9">>

\* new Date().toISOString() at clock value t (t < 10)
ToISOString(t) == <<"2025-01-01T00:00:00.00", Digits[t + 1], "Z">>

\* `scavenger-consolidate|target=${targetAddress.trim()}|ts=${ts}`
SynthesizedChallenge(target, t) ==
    <<"scavenger-consolidate|target=">> \o Trim(target) \o <<"|ts=">> \o ToISOString(t)

\* ChallengeOf that stamps the caller's challenge with the time as well
ChallengeOf_Stamped(b, t) ==
    IF Len(Trim(b.challenge)) > 0 THEN <<Trim(b.challenge) \o <<"|ts=">> \o ToISOString(t)>>
    ELSE IF Len(Trim(b.targetAddress)) > 0 THEN <<SynthesizedChallenge(b.targetAddress, t)>>
    ELSE <<>>

\* the challenge resolved from the request, as a list of zero or one string
ChallengeOf(b, t) ==
    IF Len(Trim(b.challenge)) > 0 THEN <<Trim(b.challenge)>>
    ELSE IF Len(Trim(b.targetAddress)) > 0 THEN <<SynthesizedChallenge(b.targetAddress, t)>>
    ELSE <<>>

\* indexes, before the validation
IndexesOf(b, addresses) ==
    IF Len(b.addressIndexes) > 0
    THEN LET kept == SelectSeq(b.addressIndexes, IsIndex)
         IN  [k \in 1..Len(kept) |-> kept[k].v]
    ELSE [k \in 1..Len(addresses) |-> addresses[k].index]

\* indexes.filter((i) => !available.has(i))
RECURSIVE InvalidOf(_, _)
InvalidOf(idx, addresses) ==
    IF idx = <<>> THEN <<>>
    ELSE (IF \E k \in 1..Len(addresses) : addresses[k].index = Head(idx)
          THEN <<>> ELSE <<Head(idx)>>) \o InvalidOf(Tail(idx), addresses)

\* consolidation-proofs: for (const r of receipts) if (r && r.address && !r.isDevFee) ...
RECURSIVE ProofsCountLoop(_, _)
ProofsCountLoop(rs, m) ==
    IF rs = <<>> THEN m
    ELSE ProofsCountLoop(Tail(rs),
            IF Head(rs).address # <<>> /\ ~Head(rs).isDevFee
            THEN MapIncr(m, Head(rs).address) ELSE m)

ProofsUserSolutions(rs) == ProofsCountLoop(rs, EmptyMap)

\* EligibleOf without the filter on the count
EligibleOf_KeepsZero(idx, addresses, counts) == idx

\* EligibleOf that also drops the address equal to targetAddress
RECURSIVE EligibleOf_DropsTarget(_, _, _)
EligibleOf_DropsTarget(idx, addresses, counts) ==
    IF idx = <<>> THEN <<>>
    ELSE (IF /\ MapGet(counts, Find(addresses, Head(idx))[1].bech32) > 0
             /\ Find(addresses, Head(idx))[1].bech32 # pr.body.targetAddress
          THEN <<Head(idx)>> ELSE <<>>) \o EligibleOf_DropsTarget(Tail(idx), addresses, counts)

\* indexes.filter((i) => userCount > 0)
RECURSIVE EligibleOf(_, _, _)
EligibleOf(idx, addresses, counts) ==
    IF idx = <<>> THEN <<>>
    ELSE (IF MapGet(counts, Find(addresses, Head(idx))[1].bech32) > 0
          THEN <<Head(idx)>> ELSE <<>>) \o EligibleOf(Tail(idx), addresses, counts)

\* what is kept of an earlier request to compare a later one with
NoFirst ==
    [body |-> [password |-> ""], challenge |-> <<>>, receipts |-> <<>>, signLog |-> <<>>,
     proofs |-> <<>>, response |-> NoResponse]

NoProofs ==
    [body |-> [password |-> ""], pc |-> "idle", challenge |-> <<>>, receipts |-> <<>>,
     userSolutionsPerAddress |-> EmptyMap, indexes |-> <<>>, i |-> 1, proofs |-> <<>>,
     signLog |-> <<>>, calls |-> <<>>, response |-> NoResponse,
     round |-> 1, first |-> NoFirst]

ProofsFail(st, msg) == [pr EXCEPT !.pc = "done", !.response = ErrorResponse(st, msg)]

\* POST, from request.json() to the eligible indexes: the password check, the
\* challenge, loadWallet, the validation of the indexes, readReceipts, the counts
Proofs ==
    /\ pr.pc = "start"
    /\ UNCHANGED <<ledger, now, env, cvars, lst>>
    /\ LET b == pr.body
           ch == ChallengeOf(b, now)
       IN  IF b.password = ""
           THEN pr' = ProofsFail(400, "Missing or invalid password")
           ELSE IF ch = <<>>
           THEN pr' = ProofsFail(400, "Provide challenge or targetAddress to build one")
           ELSE IF b.password # GoodPassword
           THEN \* loadWallet throws: the outer catch
                pr' = [pr EXCEPT !.pc = "done", !.challenge = ch[1],
                                 !.calls = <<"loadWallet">>,
                                 !.response = ErrorResponse(500, "Failed to decrypt wallet")]
           ELSE LET idx == IndexesOf(b, DerivedAddresses)
                    invalid == InvalidOf(idx, DerivedAddresses)
                    rs == ledger
                    counts == ProofsUserSolutions(rs)
                IN  IF Len(invalid) > 0
                    THEN pr' = [pr EXCEPT
                                  !.pc = "done", !.challenge = ch[1], !.indexes = idx,
                                  !.calls = <<"loadWallet">>,
                                  !.response = [success |-> FALSE, status |-> 400,
                                                error |-> "Invalid address indexes: ",
                                                invalid |-> invalid]]
                    ELSE LET eligible == EligibleOf(idx, DerivedAddresses, counts)
                         IN  IF Len(eligible) = 0
                             THEN pr' = [pr EXCEPT
                                           !.pc = "done", !.challenge = ch[1],
                                           !.calls = <<"loadWallet", "readReceipts">>,
                                           !.receipts = rs,
                                           !.userSolutionsPerAddress = counts,
                                           !.indexes = eligible,
                                           !.response = ErrorResponse(400,
                                               "No eligible addresses to sign (no addresses with user solutions)")]
                             ELSE pr' = [pr EXCEPT
                                           !.pc = "sign", !.challenge = ch[1],
                                           !.calls = <<"loadWallet", "readReceipts">>,
                                           !.receipts = rs,
                                           !.userSolutionsPerAddress = counts,
                                           !.indexes = eligible, !.i = 1]

\* the entry of one proof
ProofEntry(addr, signature, counts, includePublicKey) ==
    IF includePublicKey
    THEN [index |-> addr.index, address |-> addr.bech32, signature |-> signature,
          totalUserSolutions |-> MapGet(counts, addr.bech32),
          publicKeyHex |-> addr.publicKeyHex]
    ELSE [index |-> addr.index, address |-> addr.bech32, signature |-> signature,
          totalUserSolutions |-> MapGet(counts, addr.bech32)]

\* one pass of for (const i of indexes): signMessage and the push; an
\* exception of signMessage reaches the outer catch
ProofsSign ==
    /\ pr.pc = "sign"
    /\ pr.i <= Len(pr.indexes)
    /\ UNCHANGED <<ledger, now, env, cvars, lst>>
    /\ LET i == pr.indexes[pr.i]
           addr == Find(DerivedAddresses, i)[1]
       IN  \E o \in signer :
             LET logged == Append(pr.signLog, [index |-> i, message |-> pr.challenge,
                                               ok |-> o.ok, signature |-> o.signature,
                                               error |-> o.message])
             IN  IF o.ok
                 THEN pr' = [pr EXCEPT
                               !.signLog = logged,
                               !.proofs = Append(pr.proofs,
                                   ProofEntry(addr, o.signature, pr.userSolutionsPerAddress,
                                              pr.body.includePublicKey)),
                               !.i = pr.i + 1]
                 ELSE pr' = [pr EXCEPT
                               !.signLog = logged,
                               !.pc = "done",
                               !.response = ErrorResponse(500,
                                   ErrorMessage(o.message, "Internal error"))]

\* the response after the loop
ProofsRespond ==
    /\ pr.pc = "sign"
    /\ pr.i > Len(pr.indexes)
    /\ pr' = [pr EXCEPT !.pc = "done",
                        !.response = [success |-> TRUE, status |-> 200,
                                      challenge |-> pr.challenge,
                                      count |-> Len(pr.proofs), proofs |-> pr.proofs]]
    /\ UNCHANGED <<ledger, now, env, cvars, lst>>

ProofsNext == Proofs \/ ProofsSign \/ ProofsRespond

\* the bodies a client sends after a request with body b: the same again, or
\* the same with another challenge
BodiesAfter(b) == { b, [b EXCEPT !.challenge = <<"d">>] }

\* a second request reaches the handler after the first was answered: the
\* handler's locals are fresh, the first request's outcome is kept for
\* comparison
ProofsAgain ==
    /\ pr.pc = "done"
    /\ pr.round = 1
    /\ \E b \in BodiesAfter(pr.body) :
         pr' = [NoProofs EXCEPT
                  !.body = b, !.pc = "start", !.round = 2,
                  !.first = [body |-> pr.body, challenge |-> pr.challenge,
                             receipts |-> pr.receipts, signLog |-> pr.signLog,
                             proofs |-> pr.proofs, response |-> pr.response]]
    /\ UNCHANGED <<ledger, now, env, cvars, lst>>

----------------------------------------------------------------------------
(* The environment: the ledger grows, the clock advances *)

\* receiptsLogger appends a receipt
AppendReceipt ==
    /\ Len(ledger) < MaxReceipts
    /\ \E r \in Receipts : ledger' = Append(ledger, r)
    /\ UNCHANGED <<now, env, cvars, lst, pr>>

\* largest value of the clock
MaxClock == 2

Tick ==
    /\ now < MaxClock
    /\ now' = now + 1
    /\ UNCHANGED <<ledger, env, cvars, lst, pr>>

Next == ConsolidateNext \/ AddressesGET \/ ProofsNext \/ AppendReceipt \/ Tick

----------------------------------------------------------------------------
(* Requests and ledgers the model starts from *)

SeqsUpTo(S, n) == UNION { [1..k -> S] : k \in 0..n }

\* the consolidate handler before a request
ConsolidateIdle(bodies) ==
    /\ body \in bodies
    /\ pc = "start"
    /\ receipts = <<>>
    /\ userSolutionsPerAddress = EmptyMap
    /\ donors = <<>>
    /\ di = 1
    /\ entry = NoEntry
    /\ url = <<>>
    /\ results = <<>>
    /\ attempt = 0
    /\ wait = 0
    /\ lastOutcome = NoOutcome
    /\ statuses = <<>>
    /\ sleeps = <<>>
    /\ signLog = <<>>
    /\ fetchLog = <<>>
    /\ calls = <<>>
    /\ response = NoResponse

\* values a request gives as maxRetries
MaxRetriesInputs == { Num(k) : k \in -1..MaxRetriesIn } \cup { Half(1), NotANumber }

\* values a request gives as initialBackoffSeconds
BackoffInputs == { Num(k) : k \in 0..MaxBackoffIn } \cup { NotANumber }

\* the requests of the retry claims: every donor, every retry setting
RetryBodies ==
    [password : {GoodPassword}, recipientAddress : {Bech32(0)}, addressIndexes : {<<>>},
     dryRun : {"false"}, maxRetries : MaxRetriesInputs,
     initialBackoffSeconds : BackoffInputs]

UserReceipt(a) == [address |-> a, isDevFee |-> FALSE]

RetryLedgers == { <<UserReceipt(Bech32(0)), UserReceipt(Bech32(1)), UserReceipt(Bech32(2))>> }

\* signing succeeds for every donor; the remote may do anything
RetrySigner == { o \in SignOutcomes : o.ok /\ o.signature = <<"a", "+", "/">> }

RetryInit ==
    /\ ledger \in RetryLedgers
    /\ now = 0
    /\ signer = RetrySigner
    /\ remote = FetchOutcomes
    /\ ConsolidateIdle(RetryBodies)
    /\ lst = NoListing
    /\ pr = NoProofs

RetrySpec == RetryInit /\ [][ConsolidateNext]_vars

\* addressIndexes entries: known indexes, an unknown one, a non-integer
IndexInputs == { Num(0), Num(1), Num(3), Half(1) }

\* the same with a negative one
ProofsIndexInputs == IndexInputs \cup { Num(-1) }

\* a recipient of 20 characters, and one with another prefix
ShortAddr == ADDR1 \o Fill("p", 15)

StakeAddr == <<"s", "t", "a", "k", "e", "1">> \o Fill("p", 16)

\* requests that pass the password and recipient checks, with every list of
\* address indexes
AcceptedBodies ==
    [password : {GoodPassword},
     recipientAddress : {Bech32(0), ForeignAddr},
     addressIndexes : SeqsUpTo(IndexInputs, MaxIndexes),
     dryRun : {"true", "false", "undefined"},
     maxRetries : {Num(1)},
     initialBackoffSeconds : {Num(1)}]

\* requests with a missing or wrong password or a bad recipient
RejectedBodies ==
    { b \in [password : {"", GoodPassword, "wrong"},
             recipientAddress : {Bech32(0), ForeignAddr, ShortAddr, StakeAddr},
             addressIndexes : {<<>>, <<Num(1)>>},
             dryRun : {"true", "false"},
             maxRetries : {Num(1)},
             initialBackoffSeconds : {Num(1)}] :
        b.password # GoodPassword \/ ~isValidAddr(b.recipientAddress) }

\* a tnight1 recipient of 20 characters
ShortTnight == TNIGHT1 \o Fill("r", 13)

\* requests with the right password and other recipients: a tnight1 address,
\* the empty string, a bare prefix, a tnight1 address that is too short
RecipientBodies ==
    [password : {GoodPassword},
     recipientAddress : {Bech32(2), <<>>, ADDR1, ShortTnight},
     addressIndexes : {<<>>},
     dryRun : {"true"},
     maxRetries : {Num(1)},
     initialBackoffSeconds : {Num(1)}]

\* the requests of the flow claims
Bodies == AcceptedBodies \cup RejectedBodies \cup RecipientBodies

DevReceipt(a) == [address |-> a, isDevFee |-> TRUE]

\* ledgers of the flow claims: address 2 has no receipt, address 1 may have
\* dev-fee receipts
Ledgers ==
    SeqsUpTo({UserReceipt(Bech32(0)), UserReceipt(Bech32(1)), DevReceipt(Bech32(1))},
             MaxReceipts)

\* a remote that answers 200, 429 or fails
FlowRemote ==
    { o \in FetchOutcomes :
        \/ o.kind = "http" /\ o.status = 200 /\ o.text.isJson
        \/ o.kind = "http" /\ o.status = 429 /\ ~o.text.isJson
        \/ o.kind = "throw" /\ o.message # "" }

ConsolidateInit ==
    /\ ledger \in Ledgers
    /\ now = 0
    /\ signer = SignOutcomes
    /\ remote = FlowRemote
    /\ ConsolidateIdle(Bodies)
    /\ lst = NoListing
    /\ pr = NoProofs

ConsolidateSpec == ConsolidateInit /\ [][ConsolidateNext]_vars

\* requests with the right password, a challenge or a target address, and
\* every list of address indexes
ProofsAcceptedBodies ==
    { b \in [password : {GoodPassword},
             challenge : { <<>>, <<"c">>, <<" ", "c", " ">> },
             targetAddress : { <<>>, ForeignAddr },
             addressIndexes : SeqsUpTo(ProofsIndexInputs, MaxIndexes),
             includePublicKey : BOOLEAN] :
        b.challenge # <<>> \/ b.targetAddress # <<>> }

\* requests with a missing or wrong password, or nothing to build a challenge from
ProofsRejectedBodies ==
    { b \in [password : {"", GoodPassword, "wrong"},
             challenge : { <<>>, <<"c">>, <<" ">> },
             targetAddress : { <<>>, <<" ">>, ForeignAddr },
             addressIndexes : {<<>>, <<Num(1)>>},
             includePublicKey : {TRUE}] :
        b.password # GoodPassword \/ ChallengeOf(b, 0) = <<>> }

\* the requests of the consolidation-proofs claims
ProofsBodies == ProofsAcceptedBodies \cup ProofsRejectedBodies

ProofsInit ==
    /\ ledger \in Ledgers
    /\ now = 0
    /\ signer = SignOutcomes
    /\ remote = FlowRemote
    /\ ConsolidateIdle({[password |-> ""]})
    /\ lst = NoListing
    /\ \E b \in ProofsBodies : pr = [NoProofs EXCEPT !.body = b, !.pc = "start"]

ProofsSpec == ProofsInit /\ [][ProofsNext \/ Tick]_vars

\* the consolidate handler with no request
ConsolidateOff ==
    /\ body = [password |-> ""]
    /\ pc = "idle"
    /\ receipts = <<>>
    /\ userSolutionsPerAddress = EmptyMap
    /\ donors = <<>>
    /\ di = 1
    /\ entry = NoEntry
    /\ url = <<>>
    /\ results = <<>>
    /\ attempt = 0
    /\ wait = 0
    /\ lastOutcome = NoOutcome
    /\ statuses = <<>>
    /\ sleeps = <<>>
    /\ signLog = <<>>
    /\ fetchLog = <<>>
    /\ calls = <<>>
    /\ response = NoResponse

\* one request, to the consolidate endpoint or to the consolidation-proofs
\* endpoint
EndpointsInit ==
    /\ ledger \in Ledgers
    /\ now = 0
    /\ signer = SignOutcomes
    /\ remote = FlowRemote
    /\ lst = NoListing
    /\ \/ ConsolidateIdle(Bodies) /\ pr = NoProofs
       \/ /\ ConsolidateOff
          /\ \E b \in ProofsBodies : pr = [NoProofs EXCEPT !.body = b, !.pc = "start"]

EndpointsSpec == EndpointsInit /\ [][ConsolidateNext \/ ProofsNext]_vars

\* requests that are repeated: with or without a challenge, for one, two or
\* all addresses
TwoProofsBodies ==
    [password : {GoodPassword},
     challenge : { <<>>, <<"c">> },
     targetAddress : { ForeignAddr },
     addressIndexes : { <<>>, <<Num(0)>>, <<Num(1), Num(0)>> },
     includePublicKey : {TRUE}]

TwoProofsInit ==
    /\ ledger \in { <<UserReceipt(Bech32(0))>>, <<UserReceipt(Bech32(1)), UserReceipt(Bech32(0))>> }
    /\ now = 0
    /\ signer = SignOutcomes
    /\ remote = FlowRemote
    /\ ConsolidateOff
    /\ lst = NoListing
    /\ \E b \in TwoProofsBodies : pr = [NoProofs EXCEPT !.body = b, !.pc = "start"]

\* two requests in a row to consolidation-proofs, while the clock advances
\* and the ledger grows
TwoProofsSpec == TwoProofsInit /\ [][ProofsNext \/ ProofsAgain \/ Tick \/ AppendReceipt]_vars

\* a signer with one signature and one failure
PlainSigner ==
    { o \in SignOutcomes : (o.ok /\ o.signature = <<"a", "b">>) \/ (~o.ok /\ o.message # "") }

\* the same selection sent to both endpoints: the recipient of the consolidate
\* request is the targetAddress of the consolidation-proofs request
BothInit ==
    /\ ledger \in Ledgers
    /\ now = 0
    /\ signer = PlainSigner
    /\ remote = FlowRemote
    /\ lst = NoListing
    /\ ConsolidateIdle([password : {GoodPassword},
                        recipientAddress : {Bech32(0), ForeignAddr},
                        addressIndexes : SeqsUpTo(IndexInputs, MaxIndexes),
                        dryRun : {"false"},
                        maxRetries : {Num(1)},
                        initialBackoffSeconds : {Num(1)}])
    /\ pr = [NoProofs EXCEPT
               !.body = [password |-> GoodPassword, challenge |-> <<>>,
                         targetAddress |-> body.recipientAddress,
                         addressIndexes |-> body.addressIndexes,
                         includePublicKey |-> TRUE],
               !.pc = "start"]

BothSpec == BothInit /\ [][ConsolidateNext \/ ProofsNext]_vars

\* one request to each of the three endpoints, every donor asked for
CountBody ==
    [password |-> GoodPassword, recipientAddress |-> ForeignAddr, addressIndexes |-> <<>>,
     dryRun |-> "true", maxRetries |-> Num(0), initialBackoffSeconds |-> Num(1)]

CountProofsBody ==
    [password |-> GoodPassword, challenge |-> <<"c">>, targetAddress |-> <<>>,
     addressIndexes |-> <<>>, includePublicKey |-> TRUE]

CountInit ==
    /\ ledger \in SeqsUpTo(Receipts, MaxReceipts)
    /\ now = 0
    /\ signer = SignOutcomes
    /\ remote = FlowRemote
    /\ ConsolidateIdle({CountBody})
    /\ \E f \in BOOLEAN : lst = [NoListing EXCEPT !.fileExists = f, !.pc = "start"]
    /\ pr = [NoProofs EXCEPT !.body = CountProofsBody, !.pc = "start"]

\* the three endpoints compute their counts while the ledger grows
CountNext == AddressesGET \/ Consolidate \/ Proofs \/ AppendReceipt

CountSpec == CountInit /\ [][CountNext]_vars

\* the whole system: one request to each endpoint, the ledger and the clock
Init ==
    /\ ledger = <<>>
    /\ now = 0
    /\ signer = { o \in SignOutcomes : o.signature = <<"a", "+", "/">> \/ o.message # "" }
    /\ remote = { o \in FlowRemote : o.kind = "http" }
    /\ ConsolidateIdle({[CountBody EXCEPT !.dryRun = "false", !.maxRetries = Num(1)]})
    /\ lst = [NoListing EXCEPT !.pc = "start"]
    /\ pr = [NoProofs EXCEPT !.body = [CountProofsBody EXCEPT !.challenge = <<>>,
                                                              !.targetAddress = ForeignAddr],
                             !.pc = "start"]

Spec == Init /\ [][Next]_vars

----------------------------------------------------------------------------
(* Claims about postDonateTo (checked under RetrySpec) *)

\* a call of postDonateTo is running
InCall == pc \in {"fetch", "sleep"}

\* the latest call of postDonateTo has returned, and its entry is the last result
Returned ==
    /\ pc \in {"sign", "done"}
    /\ attempt >= 1
    /\ results # <<>>
    /\ results[Len(results)].signed
    /\ "status" \in DOMAIN results[Len(results)]

LastResult == results[Len(results)]

\* an outcome the retry policy retries: 429, 408 or an exception
Retryable(o) == o.kind = "throw" \/ (o.kind = "http" /\ o.status \in {408, 429})

\* maxRetries as the claim states it, from the request's value
ClaimedMaxRetries ==
    IF body.maxRetries.t = "int"
    THEN (IF body.maxRetries.v < 0 THEN 0 ELSE body.maxRetries.v)
    ELSE 3

\* C1: for a non-dry-run request and a donor whose signing succeeded,
\* postDonateTo makes at least 1 and at most maxRetries+1 fetches (maxRetries
\* the request's value clamped to >= 0, or 3 when it is no integer), and it
\* always returns: while it runs a step is enabled, a sleep is followed by a
\* fetch, and each fetch raises the bounded attempt count.
C1_AttemptsBoundedAndReturns ==
    /\ InCall => /\ ENABLED (Fetch \/ Sleep)
                 /\ Len(statuses) = attempt
                 /\ (pc = "fetch" => attempt <= ClaimedMaxRetries)
                 /\ (pc = "sleep" => attempt >= 1 /\ attempt <= ClaimedMaxRetries)
    /\ Returned => /\ attempt >= 1
                   /\ attempt <= ClaimedMaxRetries + 1
                   /\ Len(statuses) = attempt

C1_Witness ==
    /\ Returned
    /\ ~ IsInteger(body.maxRetries)
    /\ attempt = 4
    /\ Retryable(lastOutcome)

\* C2: attempt n+1 is made only if attempt n ended with 429, 408 or an
\* exception; any other HTTP status ends the loop at once and is the final
\* status, with no further attempt and no sleep.
C2_RetryOnlyRetryable ==
    /\ (InCall \/ Returned) =>
          \A k \in 1..(Len(statuses) - 1) : statuses[k] \in {429, 408, 0}
    /\ pc = "sleep" => Retryable(lastOutcome)
    /\ (pc = "fetch" /\ attempt >= 1) => Retryable(lastOutcome)
    /\ (attempt >= 1 /\ lastOutcome.kind = "http" /\ lastOutcome.status \notin {408, 429}) =>
          /\ Returned
          /\ LastResult.status = lastOutcome.status
          /\ Len(statuses) = attempt
          /\ Len(sleeps) = attempt - 1

C2_Witness ==
    /\ Returned
    /\ lastOutcome.kind = "http"
    /\ lastOutcome.status = 500
    /\ attempt = 2
    /\ ClaimedMaxRetries = 3

\* C3: the sleep before the k-th retry of a donor is
\* initialBackoffSeconds * 2^(k-1) seconds whatever outcome was retried, no
\* sleep precedes the first attempt or follows the last, each donor starts
\* again at initialBackoffSeconds, and 429, 429, 200 with maxRetries=3 and
\* initialBackoffSeconds=1 is 3 calls with waits of 1s then 2s.
C3_BackoffSchedule ==
    /\ (InCall \/ Returned) =>
          /\ \A k \in 1..Len(sleeps) :
                 sleeps[k] = InitialBackoffSecondsOf(body) * Pow2(k - 1)
          /\ Len(sleeps) = (IF pc = "fetch" THEN attempt ELSE attempt - 1)
    /\ (pc = "fetch" /\ attempt = 0) => sleeps = <<>>
    /\ ( /\ InCall \/ Returned
         /\ body.maxRetries = Num(3)
         /\ body.initialBackoffSeconds = Num(1)
         /\ Len(statuses) >= 3
         /\ SubSeq(statuses, 1, 3) = <<429, 429, 200>> ) =>
          /\ Returned
          /\ attempt = 3
          /\ statuses = <<429, 429, 200>>
          /\ sleeps = <<1, 2>>

\* the second donor's call, after a first donor that was retried twice
C3_Witness ==
    /\ Returned
    /\ Len(results) = 2
    /\ Len(fetchLog) = 6
    /\ body.maxRetries = Num(3)
    /\ body.initialBackoffSeconds = Num(1)
    /\ statuses = <<429, 429, 200>>
    /\ sleeps = <<1, 2>>

\* C4: with maxRetries=0 postDonateTo makes exactly one attempt and never
\* sleeps: a 429 or 408 is final with that status, an exception is final as
\* status 0 with an error payload.
C4_NoRetryAtZero ==
    body.maxRetries = Num(0) =>
        /\ pc # "sleep"
        /\ attempt <= 1
        /\ (InCall \/ Returned) => sleeps = <<>>
        /\ attempt = 1 =>
              /\ Returned
              /\ lastOutcome.kind = "http" => LastResult.status = lastOutcome.status
              /\ lastOutcome.kind = "throw" =>
                    /\ LastResult.status = 0
                    /\ LastResult.response.kind = "error"

C4_Witness ==
    /\ body.maxRetries = Num(0)
    /\ Returned
    /\ lastOutcome.kind = "http"
    /\ lastOutcome.status = 429
    /\ LastResult.status = 429

\* what the claim expects as the final result of an attempt that ended with o
ExpectedFinal(o) ==
    IF o.kind = "http"
    THEN [status |-> o.status,
          response |-> IF o.text.isJson THEN [kind |-> "json", v |-> o.text.v]
                       ELSE [kind |-> "raw", v |-> o.text.v]]
    ELSE [status |-> 0,
          response |-> [kind |-> "error",
                        v |-> IF o.message = "" THEN "Network error" ELSE o.message]]

\* C5: when the (maxRetries+1)-th attempt is itself retryable, postDonateTo
\* returns the outcome of that attempt: its status and body for a 429/408,
\* {status: 0, data: {error: message}} for an exception; and the donor's own
\* result entry records it as status/response.
C5_ExhaustedReturnsLast ==
    (Returned /\ attempt = ClaimedMaxRetries + 1 /\ Retryable(lastOutcome)) =>
        /\ LastResult.status = ExpectedFinal(lastOutcome).status
        /\ LastResult.response = ExpectedFinal(lastOutcome).response
        /\ LastResult.index = donors[di - 1].index
        /\ LastResult.donor = donors[di - 1].bech32
        /\ Len(results) = di - 1

\* three retried attempts that ended otherwise, then a 408 that is final
C5_Witness ==
    /\ Returned
    /\ attempt = 4
    /\ statuses = <<429, 0, 429, 408>>
    /\ LastResult.status = 408
    /\ LastResult.response.kind = "raw"

----------------------------------------------------------------------------
(* Claims about the consolidate flow (checked under ConsolidateSpec) *)

\* the URL-encoded form of the signatures the signer returns, as the claim
\* expects it
ExpectedEncodedSig(sig) ==
    IF sig = <<"a", "b">> THEN <<"a", "b">>
    ELSE IF sig = <<"a", "+", "/">> THEN <<"a", "%", "2", "B", "%", "2", "F">>
    ELSE <<"?">>

\* the curl string of a POST to <base>/donate_to/<recipient>/<donor>/<sig>
ExpectedCurl(recipient, donor, sig) ==
    <<"curl -L -X POST \"">>
        \o <<"https://scavenger.prod.gd.midnighttge.io">> \o <<"/donate_to/">>
        \o recipient \o <<"/">> \o donor \o <<"/">> \o ExpectedEncodedSig(sig)
        \o <<"\" -d \"{}\"">>

\* C6: in a request with dryRun=true no fetch is made for any donor, and
\* every donor whose signing succeeded has a result entry whose curl is the
\* POST to <base>/donate_to/<recipient>/<donor>/<sig>, <sig> the URL-encoded
\* signature signMessage returned for that donor.
C6_DryRunNoNetwork ==
    body.dryRun = "true" =>
        /\ fetchLog = <<>>
        /\ pc \notin {"fetch", "sleep"}
        /\ attempt = 0
        /\ Len(results) = Len(signLog)
        /\ \A k \in 1..Len(signLog) :
              signLog[k].ok =>
                  /\ results[k].signed
                  /\ results[k].index = signLog[k].index
                  /\ results[k].donor = Bech32(signLog[k].index)
                  /\ results[k].signature = signLog[k].signature
                  /\ results[k].curl = ExpectedCurl(body.recipientAddress,
                                                   Bech32(signLog[k].index),
                                                   signLog[k].signature)
                  /\ "status" \notin DOMAIN results[k]

\* a dry run answered with two signed donors, one signature needing escapes
C6_Witness ==
    /\ body.dryRun = "true"
    /\ pc = "done"
    /\ response.status = 200
    /\ Len(results) = 2
    /\ results[1].signed /\ results[1].signature = <<"a", "+", "/">>
    /\ results[2].signed /\ results[2].signature = <<"a", "b">>

\* C7: no address equal to recipientAddress is ever signed for, submitted as
\* a donor or listed in results, even when its index is listed in
\* addressIndexes and it has user solutions.
C7_RecipientNeverDonor ==
    /\ \A k \in 1..Len(donors) : donors[k].bech32 # body.recipientAddress
    /\ \A k \in 1..Len(signLog) : Bech32(signLog[k].index) # body.recipientAddress
    /\ \A k \in 1..Len(fetchLog) : fetchLog[k].donor # body.recipientAddress
    /\ \A k \in 1..Len(results) : results[k].donor # body.recipientAddress
    /\ pc \in {"fetch", "sleep"} => entry.donor # body.recipientAddress

\* the recipient is derived address 0, index 0 is asked for and has a user
\* solution, and another donor was submitted
C7_Witness ==
    /\ body.recipientAddress = Bech32(0)
    /\ \E k \in 1..Len(body.addressIndexes) : body.addressIndexes[k] = Num(0)
    /\ MapGet(userSolutionsPerAddress, Bech32(0)) > 0
    /\ pc = "done"
    /\ response.status = 200
    /\ fetchLog # <<>>

\* an addressIndexes entry that is not the index of a derived address
UnknownIndex(n) ==
    ~ (n.t = "int" /\ \E k \in 1..Len(DerivedAddresses) : DerivedAddresses[k].index = n.v)

HasUnknownIndex(b) == \E k \in 1..Len(b.addressIndexes) : UnknownIndex(b.addressIndexes[k])

\* a whole number >= 0 that no derived address has as its index
BeyondDerived(n) == n.t = "int" /\ n.v >= 0 /\ UnknownIndex(n)

HasIndexBeyondDerived(b) ==
    \E k \in 1..Len(b.addressIndexes) : BeyondDerived(b.addressIndexes[k])

\* the request passes the checks made before the donor indexes are looked at
PassesValidation(b) == b.password = GoodPassword /\ isValidAddr(b.recipientAddress)

\* C10: a consolidate request whose addressIndexes holds an index that is
\* not in the derived-address set is rejected as a validation error, with no
\* signing and no network call; the unknown index is not dropped while the
\* other donors are processed.
C10_UnknownIndexRejected ==
    (PassesValidation(body) /\ HasIndexBeyondDerived(body)) =>
        /\ signLog = <<>>
        /\ fetchLog = <<>>
        /\ pc = "done" => (~response.success /\ response.status = 400)

----------------------------------------------------------------------------
(* Claims about the eligibility counts (checked under CountSpec) *)

\* the number of receipts of rs whose address is a and whose isDevFee is false
UserCount(rs, a) ==
    Cardinality({ k \in 1..Len(rs) : rs[k].address = a /\ rs[k].isDevFee = FALSE })

\* the addresses of the receipts, and one that no receipt has
CountedAddresses == (ReceiptAddresses \ {<<>>}) \cup {StakeAddr}

\* C8: for every receipts list and every address the computed
\* totalUserSolutions is the number of receipts with that address and
\* isDevFee false (dev-fee receipts and other addresses never count, no such
\* receipt counts as 0), and the addresses listing, consolidate and
\* consolidation-proofs give the same mapping on the same receipts.
C8_UserSolutionsCount ==
    /\ \A a \in CountedAddresses :
          /\ MapGet(userSolutionsPerAddress, a) = UserCount(receipts, a)
          /\ MapGet(lst.userSolutionsPerAddress, a) = UserCount(lst.receipts, a)
          /\ MapGet(pr.userSolutionsPerAddress, a) = UserCount(pr.receipts, a)
    /\ (lst.pc = "done" /\ lst.fileExists) =>
          \A k \in 1..Len(DerivedAddresses) :
              lst.response.addresses[k].totalUserSolutions
                  = UserCount(lst.receipts, DerivedAddresses[k].bech32)
    /\ (pc # "start" /\ lst.pc = "done" /\ lst.fileExists /\ receipts = lst.receipts) =>
          userSolutionsPerAddress = lst.userSolutionsPerAddress
    /\ (pc # "start" /\ pr.pc # "start" /\ receipts = pr.receipts) =>
          userSolutionsPerAddress = pr.userSolutionsPerAddress
    /\ (pr.pc # "start" /\ lst.pc = "done" /\ lst.fileExists /\ pr.receipts = lst.receipts) =>
          pr.userSolutionsPerAddress = lst.userSolutionsPerAddress

\* the three endpoints have counted the same two receipts, one a dev fee
C8_Witness ==
    /\ pc # "start" /\ pr.pc # "start" /\ lst.pc = "done" /\ lst.fileExists
    /\ receipts = <<[address |-> Bech32(1), isDevFee |-> TRUE],
                    [address |-> Bech32(1), isDevFee |-> FALSE]>>
    /\ pr.receipts = receipts
    /\ lst.receipts = receipts
    /\ MapGet(userSolutionsPerAddress, Bech32(1)) = 1
    /\ MapGet(userSolutionsPerAddress, Bech32(0)) = 0

----------------------------------------------------------------------------
(* Claims about the consolidation-proofs flow (checked under ProofsSpec) *)

\* the request passes the checks made before the indexes are looked at
ProofsPassesChecks(b) == b.password = GoodPassword /\ ChallengeOf(b, 0) # <<>>

\* C9: given an addressIndexes list with any entry that is not the index of
\* a derived address (beyond the derived set, negative or non-integer), the
\* consolidation-proofs endpoint returns a validation error that names the
\* invalid entries and returns no proofs.
\* Stated by what the claim excludes: nothing is signed, no proof is built and
\* the response is a validation error.
C9_InvalidEntriesRejected ==
    (ProofsPassesChecks(pr.body) /\ HasUnknownIndex(pr.body)) =>
        /\ pr.signLog = <<>>
        /\ pr.proofs = <<>>
        /\ pr.pc = "done" => (~ pr.response.success /\ pr.response.status = 400)

----------------------------------------------------------------------------
(* Claims about both endpoints (checked under EndpointsSpec) *)

\* the derived addresses a request asks for: those whose index it lists, or
\* all of them when it lists none
RequestedAddresses(b) ==
    { DerivedAddresses[k] : k \in
        { j \in 1..Len(DerivedAddresses) :
            \/ b.addressIndexes = <<>>
            \/ \E n \in 1..Len(b.addressIndexes) :
                   b.addressIndexes[n] = [t |-> "int", v |-> DerivedAddresses[j].index] } }

\* no requested address has a user solution in rs, except possibly the address
\* excluded
NoEligibleDonor(b, rs, excluded) ==
    \A a \in RequestedAddresses(b) : UserCount(rs, a.bech32) = 0 \/ a.bech32 = excluded

\* the errors the two endpoints describe an empty or invalid selection with
NoDonorErrors ==
    { "No donor addresses with user solutions",
      "No eligible addresses to sign (no addresses with user solutions)",
      "Invalid address indexes: " }

\* C11: when no requested address is an eligible donor (all have no user
\* solution or, for consolidate, the only one that has is the recipient), a
\* request that passed the earlier checks ends with success=false and a
\* descriptive error, at either endpoint, and no signMessage and no fetch is
\* made in that request.
C11_NoEligibleDonorFails ==
    /\ (PassesValidation(body) /\ NoEligibleDonor(body, ledger, body.recipientAddress)) =>
          /\ signLog = <<>>
          /\ fetchLog = <<>>
          /\ pc \in {"start", "done"}
          /\ pc = "done" => /\ ~response.success
                            /\ response.status = 400
                            /\ response.error \in NoDonorErrors
    /\ (pr.pc # "idle" /\ ProofsPassesChecks(pr.body) /\ NoEligibleDonor(pr.body, ledger, <<>>)) =>
          /\ pr.signLog = <<>>
          /\ pr.proofs = <<>>
          /\ fetchLog = <<>>
          /\ pr.pc \in {"start", "done"}
          /\ pr.pc = "done" => /\ ~pr.response.success
                               /\ pr.response.status = 400
                               /\ pr.response.error \in NoDonorErrors

\* consolidate has refused a request whose only address with user solutions
\* is the recipient
C11_Witness ==
    /\ pc = "done"
    /\ PassesValidation(body)
    /\ body.recipientAddress = Bech32(0)
    /\ UserCount(ledger, Bech32(0)) = 2
    /\ body.addressIndexes = <<Num(0), Num(1)>>
    /\ response.error = "No donor addresses with user solutions"

----------------------------------------------------------------------------
(* Claims about the donor loop of consolidate (checked under ConsolidateSpec) *)

\* the error payload the claim expects for a signing failure with message m
ExpectedSignError(m) == [kind |-> "error", v |-> IF m = "" THEN "Signing failed" ELSE m]

\* C12: a signing failure for one donor does not abort the others: the donor
\* has its entry in results with signed=false, no signature and response
\* {error: message}, the loop goes on with the next donor, and in the final
\* response every donor was signed for and, unless dry run, every donor whose
\* signing succeeded was submitted.
C12_SignFailureContained ==
    /\ \A k \in 1..Len(signLog) :
          /\ k <= Len(donors)
          /\ signLog[k].index = donors[k].index
          /\ ~signLog[k].ok =>
                /\ Len(results) >= k
                /\ results[k].index = donors[k].index
                /\ results[k].donor = donors[k].bech32
                /\ results[k].signed = FALSE
                /\ "signature" \notin DOMAIN results[k]
                /\ results[k].response = ExpectedSignError(signLog[k].error)
                /\ (k = Len(signLog) /\ k < Len(donors)) =>
                      /\ pc = "sign"
                      /\ di = k + 1
                      /\ ENABLED SignDonor
    /\ (pc = "done" /\ signLog # <<>>) =>
          /\ Len(signLog) = Len(donors)
          /\ Len(results) = Len(donors)
          /\ \A k \in 1..Len(donors) :
                (signLog[k].ok /\ body.dryRun # "true") =>
                    /\ "status" \in DOMAIN results[k]
                    /\ \E f \in 1..Len(fetchLog) : fetchLog[f].donor = donors[k].bech32

\* signing failed for the first of two donors with the exception's message,
\* and the second was signed and submitted
C12_Witness ==
    /\ pc = "done"
    /\ Len(donors) = 2
    /\ ~signLog[1].ok /\ signLog[1].error = "key unavailable"
    /\ signLog[2].ok
    /\ body.dryRun = "false"
    /\ results[2].signed /\ results[2].status = 200
    /\ fetchLog # <<>>

\* the addresses among the first n results
ResultDonors(n) == { results[k].donor : k \in 1..n }

\* C13: in a consolidate request that passed pre-flight every eligible donor
\* address is attempted exactly once, whatever addressIndexes holds (the same
\* index twice included): one signMessage call, at most one call of
\* postDonateTo (one exactly when signing succeeded and not dry run), one
\* result entry of its own, and the reported donors count is the number of
\* distinct eligible donors.
C13_EachDonorOnce ==
    PassesValidation(body) =>
        /\ \A j, k \in 1..Len(signLog) : j # k => signLog[j].index # signLog[k].index
        /\ \A j, k \in 1..Len(results) : j # k => results[j].donor # results[k].donor
        /\ \A j, k \in 1..Len(fetchLog) :
              (fetchLog[j].donor = fetchLog[k].donor) =>
                  \A n \in j..k : fetchLog[n].donor = fetchLog[j].donor
        /\ (pc = "done" /\ response.status = 200) =>
              /\ response.donors = Cardinality(ResultDonors(Len(results)))
              /\ response.donors = Cardinality({ donors[k].bech32 : k \in 1..Len(donors) })
              /\ \A k \in 1..Len(results) :
                    (results[k].signed /\ body.dryRun # "true")
                        <=> (\E f \in 1..Len(fetchLog) : fetchLog[f].donor = results[k].donor)

\* C14: a consolidate response has success=false only for a pre-flight
\* failure (no password, wallet-unlock failure, invalid recipient address, no
\* eligible donor), and then no signMessage and no fetch was made; once the
\* first donor's signing has been invoked the response is success=true,
\* whatever the donors end with.
C14_FailureOnlyPreflight ==
    /\ (pc = "done" /\ ~response.success) =>
          /\ signLog = <<>>
          /\ fetchLog = <<>>
          /\ results = <<>>
          /\ \/ response.error = "Missing password" /\ body.password = ""
             \/ response.error = "Invalid recipientAddress"
                    /\ ~ isValidAddr(body.recipientAddress)
             \/ response.status = 500 /\ body.password \notin {"", GoodPassword}
                    /\ calls = <<"loadWallet">>
             \/ response.error = "No donor addresses with user solutions"
                    /\ NoEligibleDonor(body, ledger, body.recipientAddress)
    /\ signLog # <<>> =>
          /\ pc # "done" => response = NoResponse
          /\ pc = "done" => response.success /\ response.status = 200

\* a request answered success=true whose first donor failed to sign and whose
\* second donor ended with an exhausted 429
C14_Witness ==
    /\ pc = "done"
    /\ response.success
    /\ Len(results) = 2
    /\ ~results[1].signed
    /\ results[2].signed
    /\ body.dryRun = "false"
    /\ results[2].status = 429
    /\ Len(fetchLog) = 2

\* an address that starts with addr1 or tnight1 and is longer than 20
\* characters, as the claim states it
ClaimedValidAddr(a) ==
    /\ Len(a) > 20
    /\ \/ <<a[1], a[2], a[3], a[4], a[5]>> = <<"a", "d", "d", "r", "1">>
       \/ <<a[1], a[2], a[3], a[4], a[5], a[6], a[7]>> = <<"t", "n", "i", "g", "h", "t", "1">>

\* C15: a recipientAddress that does not start with addr1 or tnight1, or
\* that is not longer than 20 characters, is rejected with an error before
\* loadWallet, readReceipts, signMessage or a fetch is invoked; an address
\* with both properties passes the check.
C15_RecipientChecked ==
    /\ ~ ClaimedValidAddr(body.recipientAddress) =>
          /\ calls = <<>>
          /\ signLog = <<>>
          /\ fetchLog = <<>>
          /\ pc \in {"start", "done"}
          /\ pc = "done" => ~response.success /\ response.status = 400
    /\ (ClaimedValidAddr(body.recipientAddress) /\ body.password # "" /\ pc # "start") =>
          /\ calls # <<>>
          /\ calls[1] = "loadWallet"
          /\ (pc = "done" /\ ~response.success) => response.error # "Invalid recipientAddress"

\* an addr1 address of exactly 20 characters was refused, the password being
\* right
C15_Witness ==
    /\ pc = "done"
    /\ body.password = GoodPassword
    /\ body.recipientAddress = ShortAddr
    /\ Len(body.recipientAddress) = 20
    /\ response.error = "Invalid recipientAddress"
    /\ calls = <<>>

----------------------------------------------------------------------------
(* Claims about the challenge of consolidation-proofs (checked under ProofsSpec) *)

\* the caller gave a challenge with at least one character that is not a blank
GivesChallenge(b) == \E k \in 1..Len(b.challenge) : b.challenge[k] # " "

\* C16: when the caller supplies a challenge, the message handed to
\* signMessage for every index and the challenge of the response are the
\* caller's string character for character, leading and trailing white space
\* included; the message is synthesized from targetAddress and a timestamp
\* only when no challenge is given.
C16_ChallengeVerbatim ==
    /\ (pr.pc # "idle" /\ GivesChallenge(pr.body)) =>
          /\ \A k \in 1..Len(pr.signLog) : pr.signLog[k].message = pr.body.challenge
          /\ (pr.pc = "done" /\ pr.response.success) =>
                 pr.response.challenge = pr.body.challenge
    /\ (pr.pc # "idle" /\ pr.body.challenge = <<>>) =>
          \A k \in 1..Len(pr.signLog) :
              /\ Head(pr.signLog[k].message) = "scavenger-consolidate|target="
              /\ pr.signLog[k].message[Len(pr.signLog[k].message)] = "Z"

----------------------------------------------------------------------------
(* Claims about repeated consolidation-proofs requests (checked under TwoProofsSpec) *)

\* the signMessage calls of both requests
BothSignLogs == pr.first.signLog \o pr.signLog

\* the signer answered the same (index, message) the same way every time
DeterministicSigner ==
    \A j, k \in 1..Len(BothSignLogs) :
        (BothSignLogs[j].index = BothSignLogs[k].index
            /\ BothSignLogs[j].message = BothSignLogs[k].message) =>
                /\ BothSignLogs[j].ok = BothSignLogs[k].ok
                /\ BothSignLogs[j].signature = BothSignLogs[k].signature

\* the index, address and signature of every proof of a list
ProofsOf(ps) ==
    [k \in 1..Len(ps) |-> [index |-> ps[k].index, address |-> ps[k].address,
                           signature |-> ps[k].signature]]

\* C17: two requests with the same password, the same explicit challenge and
\* the same addressIndexes, against the same receipts and a signer that is
\* deterministic per (index, message), return the same challenge and the
\* same proofs (indexes, addresses, signatures).
C17_ExplicitChallengeRepeatable ==
    ( /\ pr.round = 2
      /\ pr.pc = "done"
      /\ pr.body.password = pr.first.body.password
      /\ pr.body.challenge = pr.first.body.challenge
      /\ pr.body.addressIndexes = pr.first.body.addressIndexes
      /\ GivesChallenge(pr.body)
      /\ pr.receipts = pr.first.receipts
      /\ DeterministicSigner ) =>
        /\ pr.response.success = pr.first.response.success
        /\ pr.challenge = pr.first.challenge
        /\ pr.response.success =>
              /\ pr.response.challenge = pr.first.response.challenge
              /\ ProofsOf(pr.response.proofs) = ProofsOf(pr.first.response.proofs)
              /\ pr.response.count = pr.first.response.count

\* the same request answered twice with two proofs, the clock having advanced
C17_Witness ==
    /\ pr.round = 2
    /\ pr.pc = "done"
    /\ pr.body = pr.first.body
    /\ pr.body.challenge = <<"c">>
    /\ now = 2
    /\ DeterministicSigner
    /\ pr.response.success
    /\ pr.first.response.success
    /\ Len(pr.response.proofs) = 2
    /\ pr.response.proofs[1].signature # pr.response.proofs[2].signature
    /\ pr.response.proofs = pr.first.response.proofs

\* C18: two requests without an explicit challenge (same password, same
\* targetAddress) produce different challenge strings, each embedding the
\* timestamp read at its own resolution time.
C18_SynthesizedChallengesDiffer ==
    ( /\ pr.round = 2
      /\ pr.pc # "start"
      /\ pr.body.password = pr.first.body.password
      /\ pr.body.password = GoodPassword
      /\ pr.body.targetAddress = pr.first.body.targetAddress
      /\ pr.body.challenge = <<>>
      /\ pr.first.body.challenge = <<>> ) =>
        pr.challenge # pr.first.challenge

----------------------------------------------------------------------------
(* Claims about signing failures in consolidation-proofs (checked under ProofsSpec) *)

\* C19: in consolidation-proofs a signing failure for one eligible index
\* does not abort the request: every eligible index is still signed for, and
\* the response is a success that holds the proof of every index whose
\* signing succeeded.
C19_ProofsSignFailureContained ==
    (pr.pc = "done" /\ pr.signLog # <<>>) =>
        /\ Len(pr.signLog) = Len(pr.indexes)
        /\ pr.response.success
        /\ \A k \in 1..Len(pr.signLog) :
              pr.signLog[k].ok =>
                  \E n \in 1..Len(pr.response.proofs) :
                      /\ pr.response.proofs[n].index = pr.signLog[k].index
                      /\ pr.response.proofs[n].signature = pr.signLog[k].signature

----------------------------------------------------------------------------
(* Claims about the receipts snapshot (checked under Spec) *)

\* how many times readReceipts was called
ReadCount(cs) == Cardinality({ k \in 1..Len(cs) : cs[k] = "readReceipts" })

\* C20: within one request the ledger is read once, and the
\* totalUserSolutions reported for a donor is the count, in the receipts read,
\* that made it eligible, even when receipts are appended to the ledger while
\* the request signs, sleeps or submits; so every entry of results and of
\* proofs reports totalUserSolutions > 0.
C20_OneSnapshot ==
    /\ ReadCount(calls) <= 1
    /\ ReadCount(pr.calls) <= 1
    /\ pc \in {"sign", "fetch", "sleep"} => ReadCount(calls) = 1
    /\ pr.pc = "sign" => ReadCount(pr.calls) = 1
    /\ \A k \in 1..Len(results) :
          /\ results[k].totalUserSolutions = UserCount(receipts, results[k].donor)
          /\ results[k].totalUserSolutions > 0
    /\ pc \in {"fetch", "sleep"} =>
          /\ entry.totalUserSolutions = UserCount(receipts, entry.donor)
          /\ entry.totalUserSolutions > 0
    /\ \A k \in 1..Len(donors) : UserCount(receipts, donors[k].bech32) > 0
    /\ \A k \in 1..Len(pr.proofs) :
          /\ pr.proofs[k].totalUserSolutions = UserCount(pr.receipts, pr.proofs[k].address)
          /\ pr.proofs[k].totalUserSolutions > 0
    /\ (pc = "done" /\ response.success) => response.results = results
    /\ (pr.pc = "done" /\ pr.response.success) => pr.response.proofs = pr.proofs

\* both endpoints have answered with a count of 1 for address 0, which has 2
\* user receipts in the ledger by then
C20_Witness ==
    /\ pc = "done" /\ response.success
    /\ pr.pc = "done" /\ pr.response.success
    /\ UserCount(ledger, Bech32(0)) = 2
    /\ Len(receipts) = 1
    /\ response.results[1].donor = Bech32(0)
    /\ response.results[1].totalUserSolutions = 1
    /\ "curl" \in DOMAIN response.results[1]
    /\ pr.response.proofs[1].address = Bech32(0)
    /\ pr.response.proofs[1].totalUserSolutions = 1

----------------------------------------------------------------------------
(* Claims about the two flows side by side (checked under BothSpec) *)

\* the indexes a request asks for, in its order: the whole numbers >= 0 it
\* lists, or every derived index when it lists none
RequestedIndexes(b) ==
    IF b.addressIndexes = <<>>
    THEN [k \in 1..Len(DerivedAddresses) |-> DerivedAddresses[k].index]
    ELSE LET whole(n) == n.t = "int" /\ n.v >= 0
             kept == SelectSeq(b.addressIndexes, whole)
         IN  [k \in 1..Len(kept) |-> kept[k].v]

\* of the requested indexes, those of derived addresses with a user solution
\* in rs whose address is not the one excluded
RECURSIVE ClaimedEligible(_, _, _)
ClaimedEligible(idx, rs, excluded) ==
    IF idx = <<>> THEN <<>>
    ELSE LET known == \E k \in 1..Len(DerivedAddresses) : DerivedAddresses[k].index = Head(idx)
         IN  (IF known /\ UserCount(rs, Bech32(Head(idx))) > 0 /\ Bech32(Head(idx)) # excluded
              THEN <<Head(idx)>> ELSE <<>>) \o ClaimedEligible(Tail(idx), rs, excluded)

\* C21: consolidation-proofs signs for every requested address with
\* totalUserSolutions > 0, the one equal to targetAddress included, while
\* consolidate drops the address equal to recipientAddress; the other
\* clauses (index requested or defaulting to all derived, totalUserSolutions
\* > 0) select the same addresses in both.
C21_RecipientAsymmetry ==
    /\ pc # "start" =>
          [k \in 1..Len(donors) |-> donors[k].index]
              = ClaimedEligible(RequestedIndexes(body), ledger, body.recipientAddress)
    /\ (pr.pc \in {"sign", "done"} /\ ~ HasIndexBeyondDerived(pr.body)) =>
          /\ pr.indexes = ClaimedEligible(RequestedIndexes(pr.body), ledger, <<>>)
          /\ \A k \in 1..Len(pr.signLog) : pr.signLog[k].index = pr.indexes[k]
          /\ (pr.pc = "done" /\ pr.response.success) =>
                [k \in 1..Len(pr.response.proofs) |-> pr.response.proofs[k].index] = pr.indexes
    /\ (pc # "start" /\ pr.pc \in {"sign", "done"} /\ ~ HasIndexBeyondDerived(pr.body)) =>
          LET notRecipient(i) == Bech32(i) # body.recipientAddress
          IN  [k \in 1..Len(donors) |-> donors[k].index] = SelectSeq(pr.indexes, notRecipient)

\* both endpoints answered a request for addresses 0 and 1, address 0 being
\* the recipient and the target: proofs for both, one donor
C21_Witness ==
    /\ pc = "done" /\ response.success
    /\ pr.pc = "done" /\ pr.response.success
    /\ body.recipientAddress = Bech32(0)
    /\ pr.body.targetAddress = Bech32(0)
    /\ Len(pr.response.proofs) = 2
    /\ pr.response.proofs[1].address = Bech32(0)
    /\ Len(response.results) = 1
    /\ response.results[1].donor = Bech32(1)

----------------------------------------------------------------------------
(* Claims about signing and submission per donor (checked under ConsolidateSpec) *)

\* the fetches made for the donor at position n of the donor list
FetchesOf(n) == { f \in 1..Len(fetchLog) : fetchLog[f].slot = n }

\* C22: a submission for a donor starts only after signMessage succeeded for
\* that donor, and a result entry has signed=false exactly when signing
\* failed for it: whatever the submission ends with (non-2xx status,
\* exhausted 429/408, exceptions ending in status 0) the entry keeps
\* signed=true and its signature, and an entry with signed=false has had no
\* network call.
C22_SignedMeansSigned ==
    /\ \A f \in 1..Len(fetchLog) :
          /\ fetchLog[f].slot <= Len(signLog)
          /\ signLog[fetchLog[f].slot].ok
          /\ signLog[fetchLog[f].slot].index = donors[fetchLog[f].slot].index
          /\ fetchLog[f].donor = donors[fetchLog[f].slot].bech32
    /\ pc \in {"fetch", "sleep"} =>
          /\ signLog[Len(signLog)].ok
          /\ entry.signed
          /\ entry.signature = signLog[Len(signLog)].signature
    /\ \A k \in 1..Len(results) :
          /\ results[k].signed = signLog[k].ok
          /\ results[k].signed =>
                /\ results[k].signature = signLog[k].signature
                /\ "curl" \in DOMAIN results[k]
          /\ ~results[k].signed => FetchesOf(k) = {}
          /\ (results[k].signed /\ body.dryRun # "true") =>
                /\ FetchesOf(k) # {}
                /\ "status" \in DOMAIN results[k]

\* a donor whose submission ended with status 0 after its retries keeps
\* signed=true and its signature; the donor before it failed to sign
C22_Witness ==
    /\ pc = "done"
    /\ Len(results) = 2
    /\ ~results[1].signed
    /\ FetchesOf(1) = {}
    /\ results[2].signed
    /\ results[2].signature = <<"a", "+", "/">>
    /\ body.dryRun # "true"
    /\ results[2].status = 0
    /\ Cardinality(FetchesOf(2)) = 2

\* C23: donors are processed one at a time in the order of the donor list:
\* signMessage for the next donor is not invoked until the current donor's
\* submission, retries and sleeps included, has returned; so at most one
\* fetch is under way at any moment and results is in donor-list order.
C23_OneDonorAtATime ==
    /\ Len(signLog) <= Len(donors)
    /\ \A k \in 1..Len(signLog) : signLog[k].index = donors[k].index
    /\ \A k \in 1..Len(results) :
          /\ results[k].index = donors[k].index
          /\ results[k].donor = donors[k].bech32
    /\ pc \in {"fetch", "sleep"} =>
          /\ Len(signLog) = Len(results) + 1
          /\ di = Len(signLog)
          /\ ~ ENABLED SignDonor
    /\ pc \in {"sign", "done"} => Len(signLog) = Len(results)
    /\ \A f, g \in 1..Len(fetchLog) : f <= g => fetchLog[f].slot <= fetchLog[g].slot
    /\ \A f \in 1..Len(fetchLog) :
          fetchLog[f].slot <= Len(results) + (IF pc \in {"fetch", "sleep"} THEN 1 ELSE 0)
    /\ (pc = "done" /\ response.success) =>
          [k \in 1..Len(response.results) |-> response.results[k].index]
              = [k \in 1..Len(donors) |-> donors[k].index]

\* two different donors answered in list order, the first after a retry and
\* a sleep
C23_Witness ==
    /\ pc = "done"
    /\ response.success
    /\ Len(donors) = 2
    /\ donors[1].index = 1 /\ donors[2].index = 0
    /\ response.results[1].index = 1 /\ response.results[2].index = 0
    /\ Cardinality(FetchesOf(1)) = 2
    /\ Cardinality(FetchesOf(2)) = 1

====
